---- MODULE Spec2Model ----
(***************************************************************************)
(* The route-optimization dashboard page (src/src/app/page.tsx, the Home   *)
(* component at line 737) as a state machine: the React state of the page, *)
(* the SignalR hub connection it owns, and the optimization requests it    *)
(* has in flight.  Every event handler of the page is one action; an       *)
(* async handler is one action per stretch between two awaits.             *)
(*                                                                         *)
(* Strings are modelled as non-empty sequences of tokens, so that          *)
(* String.includes / String.startsWith are computed, not assumed.  The     *)
(* empty sequence stands for null / undefined.                             *)
(***************************************************************************)
EXTENDS Integers, Sequences, FiniteSets, TLC

VARIABLES
    numDeliveries, numDrivers, minCoord, maxCoord,  \* form state
    isLoading, error, results, logMessages,         \* request state
    hubConnection, connectionStatus,                \* push-channel state
    hubState,        \* hubConnection.state, owned by the SignalR client
    signalrUrl,      \* process.env.NEXT_PUBLIC_SIGNALR_URL is defined
    apiUrl,          \* process.env.NEXT_PUBLIC_API_URL is defined
    mounted,         \* the mount effect has run
    requests,        \* fetches issued by handleSubmit and not yet settled
    submits,         \* number of handleSubmit calls so far
    ev,              \* history: the handler that ran last, with its input
    prevLogs,        \* history: logMessages before the handler ran
    plain,           \* history: the notifications received since the log was
                     \* last empty, while nothing else has changed the log
                     \* and none of them asked for a replacement
    unmounted,       \* the cleanup of the mount effect has run
    hubStopped,      \* stop() has been invoked on the connection
    received,        \* history: the payload results holds, as it was
                     \* received, with the id of its request
    deliveries, driverRoutes,   \* props of the RouteChart component
    chart,           \* what RouteChart returned
    issued,          \* history: the submissions that issued a request
    tooltip,         \* the item hovered last and the title shown for it
    cards,           \* the driver cards of the results section
    shown,           \* results, as the results section is rendered from it
    totalDistance    \* the value of the "Total Distance Covered" stat

vars == <<numDeliveries, numDrivers, minCoord, maxCoord, isLoading, error,
          results, logMessages, hubConnection, connectionStatus, hubState,
          signalrUrl, apiUrl, mounted, requests, submits, ev, prevLogs,
          plain, unmounted, hubStopped, received, deliveries, driverRoutes,
          chart, issued, tooltip, cards, shown, totalDistance>>

formVars == <<numDeliveries, numDrivers, minCoord, maxCoord>>
hubVars  == <<hubConnection, connectionStatus, hubState>>
envVars  == <<signalrUrl, apiUrl>>
lifeVars == <<unmounted, hubStopped>>
chartVars == <<deliveries, driverRoutes, chart>>
viewVars == <<tooltip, cards, shown, totalDistance>>

-----------------------------------------------------------------------------
(* Bounds of the model *)

MaxLog     == 3    \* notifications are delivered while the log fits
MaxSubmits == 2    \* submissions per page load
MaxDeliveries == 3 \* deliveries handed to the chart
MaxHoverDeliveries == 2  \* deliveries of a chart that is hovered
MaxHoverRoutes == 2      \* routes of a chart that is hovered
MaxCardRoutes == 2       \* routes of a result whose section is rendered
MaxRoutes  == 2    \* driver routes handed to the chart, behind the filler
MaxPad     == 18   \* filler routes in front of them

-----------------------------------------------------------------------------
(* Values *)

Null == << >>          \* null / undefined

\* The numbers handleInputChange computes with: a finite number, NaN (what
\* parseInt / parseFloat give for a non-number) or -Infinity.
Num(n)        == [tag |-> "num", value |-> n]
NaN           == [tag |-> "NaN", value |-> 0]
MinusInfinity == [tag |-> "-Infinity", value |-> 0]

InitialNumDeliveries == 30
InitialNumDrivers    == 4
InitialMinCoord      == -1000
InitialMaxCoord      == 1000

\* What the user can type into a count field, after parseInt(value, 10).
CountInputs == {NaN, Num(-1), Num(0), Num(2)}
\* What the user can type into a coordinate field, after parseFloat(value).
CoordInputs == {NaN, Num(1000)}

Messages == {<<"m1">>, <<"m2">>}
Styles   == {"progress", "info"}

\* The ProgressUpdate objects the service pushes.
ProgressUpdate ==
    [message : Messages, style : Styles, clearPreviousProgress : BOOLEAN]

\* error.message of the rejections fetch() can produce.
FetchErrors == {<<"Failed to fetch">>,
                <<"NetworkError", "when attempting to fetch resource.">>,
                <<"Load failed">>}

\* error.message of the rejections response.json() can produce.
JsonErrors == {<<"Unexpected token <", "in", "JSON at position", "0">>,
               <<"Unexpected token '<',", "is not valid JSON">>}

\* A Delivery and a DriverRoute of the result payload.
Delivery(id, x, y) == [id |-> id, x |-> x, y |-> y]
DriverRoute(driverId, routePoints) ==
    [driverId |-> driverId, routePoints |-> routePoints]

\* Parsed response bodies.  An absent field is Null; isNull is the JSON
\* value null.
Body(isNull, errorMessage, title, bestMethod, routes) ==
    [isNull |-> isNull, errorMessage |-> errorMessage, title |-> title,
     bestMethod |-> bestMethod, driverRoutes |-> routes]

Bodies == {Body(TRUE, Null, Null, Null, Null),
           Body(FALSE, Null, Null, Null, Null),
           Body(FALSE, <<"boom">>, Null, Null, Null),
           Body(FALSE, Null, <<"Bad Request">>, Null, Null),
           Body(FALSE, Null, Null, <<"NN">>,
                <<DriverRoute(2, <<Delivery(1, 1, 1)>>),
                  DriverRoute(1, <<Delivery(2, 2, 2)>>)>>),
           Body(FALSE, <<"boom">>, Null, <<"NN">>, Null)}

-----------------------------------------------------------------------------
(* String helpers *)

Includes(s, t)   == \E i \in 1..Len(s) : s[i] = t
StartsWith(s, t) == Len(s) > 0 /\ s[1] = t

Max(a, b) == IF a >= b THEN a ELSE b

-----------------------------------------------------------------------------
(* connection.on("ReceiveMessage") *)

\* Date.now(): the capture time, one symbolic instant.
DateNow == "Date.now()"

\* { ...update, timestamp: Date.now() }
Stamp(update) ==
    [message |-> update.message, style |-> update.style,
     clearPreviousProgress |-> update.clearPreviousProgress,
     timestamp |-> DateNow]

\* Array.prototype.indexOf over the styles, 1-based; 0 when absent.
FirstIndexOf(logs, style) ==
    LET hits == {i \in 1..Len(logs) : logs[i].style = style}
    IN  IF hits = {} THEN 0
        ELSE CHOOSE i \in hits : \A j \in hits : i <= j

\* Array.prototype.lastIndexOf over the styles, 1-based; 0 when absent.
LastIndexOf(logs, style) ==
    LET hits == {i \in 1..Len(logs) : logs[i].style = style}
    IN  IF hits = {} THEN 0
        ELSE CHOOSE i \in hits : \A j \in hits : j <= i

\* A handler that never replaces.
ReceiveMessageAppendOnly(prev, update) == Append(prev, Stamp(update))

\* A handler that replaces for every progress-styled notification.
ReceiveMessageIgnoresFlag(prev, update) ==
    LET item == Stamp(update)
        lastProgressIndex == LastIndexOf(prev, "progress")
    IN  IF item.style = "progress" /\ lastProgressIndex # 0
        THEN [prev EXCEPT ![lastProgressIndex] = item]
        ELSE Append(prev, item)

\* A handler that replaces for every flagged notification.
ReceiveMessageIgnoresStyle(prev, update) ==
    LET item == Stamp(update)
        lastProgressIndex == LastIndexOf(prev, "progress")
    IN  IF item.clearPreviousProgress /\ lastProgressIndex # 0
        THEN [prev EXCEPT ![lastProgressIndex] = item]
        ELSE Append(prev, item)

\* A handler that drops a replacement that finds nothing to replace.
ReceiveMessageDropsUnmatched(prev, update) ==
    LET item == Stamp(update)
        lastProgressIndex == LastIndexOf(prev, "progress")
    IN  IF item.clearPreviousProgress /\ item.style = "progress"
        THEN IF lastProgressIndex # 0
             THEN [prev EXCEPT ![lastProgressIndex] = item]
             ELSE prev
        ELSE Append(prev, item)

\* The functional update handed to setLogMessages.
ReceiveMessage(prev, update) ==
    LET item == Stamp(update)
        lastProgressIndex == LastIndexOf(prev, "progress")
    IN  IF item.clearPreviousProgress /\ item.style = "progress"
           /\ lastProgressIndex # 0
        THEN [prev EXCEPT ![lastProgressIndex] = item]
        ELSE Append(prev, item)

\* Array.prototype.reverse on a copy.
Reverse(logs) == [i \in 1..Len(logs) |-> logs[Len(logs) + 1 - i]]

\* Array.prototype.findIndex for log.style === style, 0-based; -1 when
\* absent.
FindIndex(logs, style) ==
    LET hits == {i \in 1..Len(logs) : logs[i].style = style}
    IN  IF hits = {} THEN -1
        ELSE (CHOOSE i \in hits : \A j \in hits : i <= j) - 1

\* The same handler in the file's first revision, which searches the
\* reversed log.
ReceiveMessageFindIndex(prevLogs0, update) ==
    LET messageWithTimestamp == Stamp(update)
        lastProgressIndex == FindIndex(Reverse(prevLogs0), "progress")
        indexToReplace == Len(prevLogs0) - 1 - lastProgressIndex
    IN  IF messageWithTimestamp.clearPreviousProgress
           /\ messageWithTimestamp.style = "progress"
           /\ lastProgressIndex # -1
        THEN [prevLogs0 EXCEPT ![indexToReplace + 1] = messageWithTimestamp]
        ELSE Append(prevLogs0, messageWithTimestamp)

-----------------------------------------------------------------------------
(* handleInputChange *)

isNaN(raw) == raw.tag = "NaN"

\* Math.max(minVal, val) for a finite val.
MathMax(minVal, val) ==
    IF minVal.tag = "-Infinity" THEN val ELSE Max(minVal.value, val)

\* A handler that hands the parsed input to the setter without the clamp.
handleInputChangeNoClamp(minVal, raw) ==
    IF isNaN(raw) THEN 0 ELSE raw.value

\* The value handed to the setter for the parsed input raw.
handleInputChange(minVal, raw) ==
    LET val == IF isNaN(raw)
               THEN (IF minVal.tag = "num" /\ minVal.value > 0
                     THEN minVal.value ELSE 0)
               ELSE raw.value
    IN  MathMax(minVal, val)

-----------------------------------------------------------------------------
(* handleSubmit *)

ErrSignalRUrlMissing == <<"SignalR URL missing. Real-time logs disabled.">>
ErrStartFailed ==
    <<"Failed to connect to SignalR hub at", "url",
      ". Real-time logs will be unavailable.">>
ErrCounts == <<"Number of deliveries and drivers must be positive.">>
ErrCoords ==
    <<"Minimum coordinate must be less than the maximum coordinate.">>
ErrApiUrl ==
    <<"API URL environment variable (NEXT_PUBLIC_API_URL) is not configured.">>
ErrStructure == <<"Received unexpected data structure from the server.">>

\* A log entry the page creates itself (it has no clearPreviousProgress
\* field, which reads as false).
LogEntry(message, style) ==
    [message |-> message, style |-> style, clearPreviousProgress |-> FALSE,
     timestamp |-> DateNow]

\* A submit button that is never disabled.
SubmitAlwaysEnabled == TRUE

\* The submit button is rendered with disabled={isLoading}.
SubmitEnabled == ~isLoading

\* The number inputs are rendered with disabled={isLoading}.
InputEnabled == ~isLoading

\* !hubConnection || hubConnection.state !== HubConnectionState.Connected
NotConnected == hubConnection = "null" \/ hubState # "Connected"

NotConnectedEntry ==
    LogEntry(<<"SignalR not connected (State:",
               IF hubConnection = "null" THEN "Not Initialized" ELSE hubState,
               "). Real-time logs unavailable.">>, "warning")

\* A submission that keeps the log and adds the warning to it.
LogAtSubmitKeepsLog ==
    IF NotConnected THEN Append(logMessages, NotConnectedEntry)
    ELSE logMessages

\* The log handleSubmit leaves before its validation: setLogMessages([]),
\* then the functional update that adds the not-connected warning.
LogAtSubmit ==
    IF NotConnected THEN Append(<< >>, NotConnectedEntry)
    ELSE << >>

\* A submission that clears the result only once its validation has passed.
ResultsAtSubmitKeptOnRejection ==
    IF numDeliveries <= 0 \/ numDrivers <= 0 \/ minCoord >= maxCoord
       \/ ~apiUrl
    THEN results ELSE Null

\* setResults(null) at the start of handleSubmit.
ResultsAtSubmit == Null

\* A handleSubmit without its finally block.
LoadingAfterFinallyKept == isLoading

\* finally { setIsLoading(false) }
LoadingAfterFinally == FALSE

\* A validation that forgets the coordinate bounds.
SubmitRejectionNoCoordCheck ==
    IF numDeliveries <= 0 \/ numDrivers <= 0 THEN ErrCounts
    ELSE IF ~apiUrl THEN ErrApiUrl
    ELSE Null

\* A validation that refuses to go on without a live push channel.
SubmitRejectionNeedsHub ==
    IF NotConnected THEN <<"SignalR not connected.">>
    ELSE IF numDeliveries <= 0 \/ numDrivers <= 0 THEN ErrCounts
    ELSE IF minCoord >= maxCoord THEN ErrCoords
    ELSE IF ~apiUrl THEN ErrApiUrl
    ELSE Null

\* The validation of handleSubmit: the error it sets, Null when it goes on
\* to call fetch.
SubmitRejection ==
    IF numDeliveries <= 0 \/ numDrivers <= 0 THEN ErrCounts
    ELSE IF minCoord >= maxCoord THEN ErrCoords
    ELSE IF ~apiUrl THEN ErrApiUrl
    ELSE Null

RequestData ==
    [numberOfDeliveries |-> numDeliveries, numberOfDrivers |-> numDrivers,
     minCoordinate |-> minCoord, maxCoordinate |-> maxCoord]

\* A try block without the check of the body's structure.
ThrownForNoStructureCheck(ok, data) ==
    IF ~ok
    THEN IF data.errorMessage # Null THEN data.errorMessage
         ELSE IF data.title # Null THEN data.title
         ELSE <<"Server Error", "(status):", "statusText">>
    ELSE Null

\* The message of the Error the try block throws for a parsed body, Null
\* when it throws nothing.
ThrownFor(ok, data) ==
    IF ~ok
    THEN IF data.errorMessage # Null THEN data.errorMessage
         ELSE IF data.title # Null THEN data.title
         ELSE <<"Server Error", "(status):", "statusText">>
    ELSE IF data.isNull \/ data.bestMethod = Null THEN ErrStructure
    ELSE Null

\* The msg the catch block derives from err.message.
CatchMessage(errMessage) ==
    IF Includes(errMessage, "Failed to fetch")
       \/ Includes(errMessage, "NetworkError")
    THEN <<"Network Error: Unable to connect to the API at", "apiUrl",
           ". Please check if the backend server is running and accessible.">>
    ELSE IF StartsWith(errMessage, "Server Error")
            \/ StartsWith(errMessage, "API Error:")
    THEN errMessage
    ELSE IF Includes(errMessage, "JSON at position")
    THEN <<"API Error:", "Failed to parse response from server.">>
            \o errMessage
    ELSE <<"API Error:">> \o errMessage

\* The style of the entry the catch block appends to the log.
CatchStyle == "error-large"

\* The entry the catch block appends in the revision of handleSubmit kept
\* in src/unnamed/part_002 (line 123).
CatchEntryPart002(errMessage) ==
    LogEntry(<<"API Error:">> \o errMessage, "error")

\* The error text the catch block sets in that revision.
CatchErrorPart002(errMessage) ==
    IF Includes(errMessage, "Failed to fetch")
       \/ Includes(errMessage, "NetworkError")
    THEN <<"Failed to connect to the API server at", "apiUrl">>
    ELSE <<"An error occurred communicating with the server:">>
            \o errMessage

-----------------------------------------------------------------------------
(* The state machine *)

\* The notification asks to replace the last progress line.
WantsReplace(update) ==
    update.clearPreviousProgress /\ update.style = "progress"

NotPlain == [ok |-> FALSE, seq |-> << >>]

\* No payload has been stored yet.
NoPayload == [id |-> 0, data |-> Null]

\* RouteChart has not been called.
NotRendered == [kind |-> "none", datasets |-> << >>]

\* No tooltip has been asked for.
NoTooltip == [kind |-> "none"]

\* The "Total Distance Covered" stat has not been rendered.
NotComputed == [kind |-> "none"]

\* The state of the page after its first render.
InitPage ==
    /\ numDeliveries = InitialNumDeliveries
    /\ numDrivers = InitialNumDrivers
    /\ minCoord = InitialMinCoord
    /\ maxCoord = InitialMaxCoord
    /\ isLoading = FALSE
    /\ error = Null
    /\ results = Null
    /\ logMessages = << >>
    /\ hubConnection = "null"
    /\ connectionStatus = "Not connected"
    /\ hubState = "Disconnected"
    /\ mounted = FALSE
    /\ requests = {}
    /\ submits = 0
    /\ ev = [kind |-> "init"]
    /\ prevLogs = << >>
    /\ plain = [ok |-> TRUE, seq |-> << >>]
    /\ unmounted = FALSE
    /\ hubStopped = FALSE
    /\ received = NoPayload
    /\ issued = {}

\* Nothing has been hovered, and no summary or driver card rendered.
InitView ==
    /\ tooltip = NoTooltip
    /\ cards = << >>
    /\ shown = Null
    /\ totalDistance = NotComputed

Init ==
    /\ InitPage
    /\ InitView
    /\ signalrUrl \in BOOLEAN
    /\ apiUrl \in BOOLEAN
    /\ deliveries = << >>
    /\ driverRoutes = << >>
    /\ chart = NotRendered

\* useEffect(() => {...}, []) : build the connection and start it.
MountEffect ==
    /\ ~mounted
    /\ mounted' = TRUE
    /\ IF ~signalrUrl
       THEN /\ error' = ErrSignalRUrlMissing
            /\ connectionStatus' = "Not connected"
            /\ UNCHANGED <<hubConnection, hubState>>
       ELSE /\ hubConnection' = "connection"
            /\ hubState' = "Connecting"
            /\ UNCHANGED <<error, connectionStatus>>
    /\ ev' = [kind |-> "mount"]
    /\ prevLogs' = logMessages
    /\ ~unmounted
    /\ UNCHANGED <<lifeVars, chartVars, viewVars, received, issued>>
    /\ UNCHANGED <<plain, formVars, envVars, isLoading, results, logMessages,
                   requests, submits>>

\* connection.start().then(...)
StartResolved ==
    /\ mounted /\ hubState = "Connecting"
    /\ hubState' = "Connected"
    /\ connectionStatus' = "Connected"
    /\ ev' = [kind |-> "startResolved"]
    /\ prevLogs' = logMessages
    /\ ~unmounted
    /\ UNCHANGED <<lifeVars, chartVars, viewVars, received, issued>>
    /\ UNCHANGED <<plain, formVars, envVars, isLoading, error, results, logMessages,
                   hubConnection, mounted, requests, submits>>

\* connection.start().catch(...)
StartRejected ==
    /\ mounted /\ hubState = "Connecting"
    /\ hubState' = "Disconnected"
    /\ error' = ErrStartFailed
    /\ connectionStatus' = "Connection Failed"
    /\ ev' = [kind |-> "startRejected"]
    /\ prevLogs' = logMessages
    /\ ~unmounted
    /\ UNCHANGED <<lifeVars, chartVars, viewVars, received, issued>>
    /\ UNCHANGED <<plain, formVars, envVars, isLoading, results, logMessages,
                   hubConnection, mounted, requests, submits>>

\* connection.onreconnecting(...)
OnReconnecting ==
    /\ mounted /\ hubState = "Connected"
    /\ hubState' = "Reconnecting"
    /\ connectionStatus' = "Reconnecting"
    /\ ev' = [kind |-> "reconnecting"]
    /\ prevLogs' = logMessages
    /\ ~unmounted
    /\ UNCHANGED <<lifeVars, chartVars, viewVars, received, issued>>
    /\ UNCHANGED <<plain, formVars, envVars, isLoading, error, results, logMessages,
                   hubConnection, mounted, requests, submits>>

\* connection.onreconnected(...)
OnReconnected ==
    /\ mounted /\ hubState = "Reconnecting"
    /\ hubState' = "Connected"
    /\ connectionStatus' = "Connected"
    /\ ev' = [kind |-> "reconnected"]
    /\ prevLogs' = logMessages
    /\ ~unmounted
    /\ UNCHANGED <<lifeVars, chartVars, viewVars, received, issued>>
    /\ UNCHANGED <<plain, formVars, envVars, isLoading, error, results, logMessages,
                   hubConnection, mounted, requests, submits>>

\* The connectionStatus the onclose callback reads: the callback is created
\* by the mount effect, whose closure holds the first render's value.
ClosureConnectionStatus == "Not connected"

\* What the onclose callback leaves in connectionStatus.
OnCloseStatus ==
    IF ClosureConnectionStatus # "Connection Failed"
    THEN "Disconnected" ELSE connectionStatus

\* connection.onclose(...) : the client gave up reconnecting.
OnClose ==
    /\ mounted /\ hubState = "Reconnecting"
    /\ hubState' = "Disconnected"
    /\ connectionStatus' = OnCloseStatus
    /\ ev' = [kind |-> "close"]
    /\ prevLogs' = logMessages
    /\ ~unmounted
    /\ UNCHANGED <<lifeVars, chartVars, viewVars, received, issued>>
    /\ UNCHANGED <<plain, formVars, envVars, isLoading, error, results, logMessages,
                   hubConnection, mounted, requests, submits>>

\* The ReceiveMessage callback runs for a notification the service
\* produced for the request origin.
Deliver(update, origin) ==
    /\ Len(ReceiveMessage(logMessages, update)) <= MaxLog
    /\ logMessages' = ReceiveMessage(logMessages, update)
    /\ ev' = [kind |-> "ReceiveMessage", update |-> update,
              origin |-> origin]
    /\ plain' = IF plain.ok /\ ~WantsReplace(update)
                THEN [ok |-> TRUE, seq |-> Append(plain.seq, update)]
                ELSE NotPlain

\* A notification arrives that is not of an earlier request.
OnReceiveMessage ==
    /\ mounted
    /\ hubState = "Connected"
    /\ \E update \in ProgressUpdate : Deliver(update, submits)
    /\ prevLogs' = logMessages
    /\ ~unmounted
    /\ UNCHANGED <<lifeVars, chartVars, viewVars, received, issued>>
    /\ UNCHANGED <<formVars, hubVars, envVars, isLoading, error, results,
                   mounted, requests, submits>>

\* A notification the service produced for an earlier request arrives
\* after a later submission: the channel and the HTTP response are not
\* ordered with respect to each other.
OnReceiveLateMessage ==
    /\ mounted
    /\ hubState = "Connected"
    /\ \E origin \in issued :
          /\ origin < submits
          /\ \E update \in ProgressUpdate : Deliver(update, origin)
    /\ prevLogs' = logMessages
    /\ ~unmounted
    /\ UNCHANGED <<lifeVars, chartVars, viewVars, received, issued>>
    /\ UNCHANGED <<formVars, hubVars, envVars, isLoading, error, results,
                   mounted, requests, submits>>

\* connection.onclose(...) running after connection.start() has failed.
\* The SignalR client decides when it runs the callback; the page only
\* registers it.
OnCloseAfterStartFailure ==
    /\ mounted
    /\ hubConnection = "connection"
    /\ hubState = "Disconnected"
    /\ connectionStatus = "Connection Failed"
    /\ connectionStatus' = OnCloseStatus
    /\ ev' = [kind |-> "close"]
    /\ prevLogs' = logMessages
    /\ ~unmounted
    /\ UNCHANGED <<lifeVars, chartVars, viewVars, received, issued>>
    /\ UNCHANGED <<plain, formVars, envVars, isLoading, error, results,
                   logMessages, hubConnection, hubState, mounted, requests,
                   submits>>

\* onChange of the four number inputs.
InputChange ==
    /\ mounted /\ InputEnabled
    /\ \/ \E raw \in CountInputs :
             /\ numDeliveries' = handleInputChange(Num(1), raw)
             /\ UNCHANGED <<numDrivers, minCoord, maxCoord>>
       \/ \E raw \in CountInputs :
             /\ numDrivers' = handleInputChange(Num(1), raw)
             /\ UNCHANGED <<numDeliveries, minCoord, maxCoord>>
       \/ \E raw \in CoordInputs :
             /\ minCoord' = handleInputChange(MinusInfinity, raw)
             /\ UNCHANGED <<numDeliveries, numDrivers, maxCoord>>
       \/ \E raw \in CoordInputs :
             /\ maxCoord' = handleInputChange(MinusInfinity, raw)
             /\ UNCHANGED <<numDeliveries, numDrivers, minCoord>>
    /\ ev' = [kind |-> "inputChange"]
    /\ prevLogs' = logMessages
    /\ ~unmounted
    /\ UNCHANGED <<lifeVars, chartVars, viewVars, received, issued>>
    /\ UNCHANGED <<plain, hubVars, envVars, isLoading, error, results, logMessages,
                   mounted, requests, submits>>

\* handleSubmit up to its first await (or its early return).
HandleSubmit ==
    /\ mounted /\ SubmitEnabled
    /\ submits < MaxSubmits
    /\ submits' = submits + 1
    /\ results' = ResultsAtSubmit
    /\ received' = NoPayload
    /\ logMessages' = LogAtSubmit
    /\ error' = SubmitRejection
    /\ IF SubmitRejection # Null
       THEN /\ isLoading' = FALSE
            /\ UNCHANGED <<requests, issued>>
       ELSE /\ isLoading' = TRUE
            /\ requests' = requests \cup
                  {[id |-> submits + 1, pc |-> "fetch", ok |-> FALSE,
                    body |-> RequestData]}
            /\ issued' = issued \cup {submits + 1}
    /\ ev' = [kind |-> "handleSubmit", hadResult |-> results # Null]
    /\ plain' = [ok |-> logMessages' = << >>, seq |-> << >>]
    /\ prevLogs' = logMessages
    /\ ~unmounted
    /\ UNCHANGED <<lifeVars, chartVars, viewVars>>
    /\ UNCHANGED <<formVars, hubVars, envVars, mounted>>

\* What setResults(data) leaves in results.
Stored(data) == IF data.isNull THEN Null ELSE <<data>>

\* sorted, with r put behind the routes whose driverId is not above its
\* own.
InsertByDriverId(r, sorted) ==
    LET k == Cardinality({i \in 1..Len(sorted) :
                             sorted[i].driverId <= r.driverId})
    IN  SubSeq(sorted, 1, k) \o <<r>> \o SubSeq(sorted, k + 1, Len(sorted))

\* routes.sort((a, b) => (a.driverId ?? 0) - (b.driverId ?? 0)) : the
\* array after the call, which sorts it in place and is stable.
RECURSIVE SortByDriverId(_)
SortByDriverId(routes) ==
    IF routes = << >> THEN << >>
    ELSE InsertByDriverId(routes[Len(routes)],
                          SortByDriverId(SubSeq(routes, 1, Len(routes) - 1)))

\* The results section is rendered.
ResultsShown(res, loading, err) == res # Null /\ ~loading /\ err = Null

\* The object results refers to, after the page has rendered: the results
\* section sorts results.driverRoutes where it lists the driver cards.
RenderResults(res, loading, err) ==
    IF ResultsShown(res, loading, err) /\ Len(res[1].driverRoutes) > 0
    THEN <<[res[1] EXCEPT !.driverRoutes = SortByDriverId(@)]>>
    ELSE res

\* catch (err) {...} finally {...} of handleSubmit.
Catch(errMessage) ==
    LET msg == CatchMessage(errMessage)
    IN  /\ error' = msg
        /\ logMessages' = Append(logMessages, LogEntry(msg, CatchStyle))
        /\ results' = Null
        /\ received' = NoPayload
        /\ isLoading' = LoadingAfterFinally
        /\ plain' = NotPlain

\* await fetch(...) rejects.
FetchRejected ==
    /\ \E r \in requests :
          /\ r.pc = "fetch"
          /\ requests' = requests \ {r}
          /\ \E errMessage \in FetchErrors :
                /\ Catch(errMessage)
                /\ ev' = [kind |-> "fetchRejected", id |-> r.id,
                          errMessage |-> errMessage]
    /\ prevLogs' = logMessages
    /\ ~unmounted
    /\ UNCHANGED <<lifeVars, chartVars, viewVars, issued>>
    /\ UNCHANGED <<formVars, hubVars, envVars, mounted, submits>>

\* await fetch(...) resolves with the response's status line.
FetchResolved ==
    /\ \E r \in requests :
          /\ r.pc = "fetch"
          /\ \E ok \in BOOLEAN :
                requests' = (requests \ {r}) \cup
                               {[r EXCEPT !.pc = "json", !.ok = ok]}
          /\ ev' = [kind |-> "fetchResolved", id |-> r.id]
    /\ prevLogs' = logMessages
    /\ ~unmounted
    /\ UNCHANGED <<lifeVars, chartVars, viewVars, received, issued>>
    /\ UNCHANGED <<plain, formVars, hubVars, envVars, isLoading, error, results,
                   logMessages, mounted, submits>>

\* await response.json() rejects.
JsonRejected ==
    /\ \E r \in requests :
          /\ r.pc = "json"
          /\ requests' = requests \ {r}
          /\ \E errMessage \in JsonErrors :
                /\ Catch(errMessage)
                /\ ev' = [kind |-> "jsonRejected", id |-> r.id,
                          ok |-> r.ok, errMessage |-> errMessage]
    /\ prevLogs' = logMessages
    /\ ~unmounted
    /\ UNCHANGED <<lifeVars, chartVars, viewVars, issued>>
    /\ UNCHANGED <<formVars, hubVars, envVars, mounted, submits>>

\* await response.json() resolves with the parsed body.
JsonResolved ==
    /\ \E r \in requests :
          /\ r.pc = "json"
          /\ requests' = requests \ {r}
          /\ \E data \in Bodies :
                /\ IF ThrownFor(r.ok, data) # Null
                   THEN Catch(ThrownFor(r.ok, data))
                   ELSE /\ results' = RenderResults(Stored(data), FALSE, error)
                        /\ isLoading' = LoadingAfterFinally
                        /\ received' = [id |-> r.id, data |-> data]
                        /\ UNCHANGED <<error, logMessages, plain>>
                /\ ev' = [kind |-> "jsonResolved", id |-> r.id, ok |-> r.ok,
                          data |-> data]
    /\ prevLogs' = logMessages
    /\ ~unmounted
    /\ UNCHANGED <<lifeVars, chartVars, viewVars, issued>>
    /\ UNCHANGED <<formVars, hubVars, envVars, mounted, submits>>

\* The dismiss button of the error banner: onClick={() => setError(null)}.
DismissError ==
    /\ mounted /\ error # Null
    /\ error' = Null
    /\ results' = RenderResults(results, isLoading, Null)
    /\ ev' = [kind |-> "dismissError"]
    /\ prevLogs' = logMessages
    /\ ~unmounted
    /\ UNCHANGED <<lifeVars, chartVars, viewVars, received, issued>>
    /\ UNCHANGED <<plain, formVars, hubVars, envVars, isLoading,
                   logMessages, mounted, requests, submits>>

\* The hubConnection the cleanup of the mount effect reads: the effect runs
\* once, so its closure holds the first render's value.
ClosureHubConnection == "null"

\* The function the mount effect returns, run when the page unmounts.  The
\* effect returns none when the SignalR URL is missing.
Unmount ==
    /\ mounted /\ ~unmounted
    /\ unmounted' = TRUE
    /\ LET stop == signalrUrl /\ ClosureHubConnection # "null"
       IN  /\ hubStopped' = stop
           /\ hubState' = IF stop THEN "Disconnected" ELSE hubState
    /\ ev' = [kind |-> "unmount"]
    /\ prevLogs' = logMessages
    /\ UNCHANGED <<plain, formVars, envVars, isLoading, error, results,
                   logMessages, hubConnection, connectionStatus, mounted,
                   requests, submits, received, issued, chartVars,
                   viewVars>>

-----------------------------------------------------------------------------
(* RouteChart *)

\* The palette of src/src/components/RouteChart.tsx.
routeColors ==
    <<"#FF6384", "#36A2EB", "#FFCE56", "#4BC0C0", "#9966FF", "#FF9F40",
      "#FFCD56", "#C9CBCF", "#3FC77D", "#E751D8", "#F44336", "#2196F3",
      "#FFEB3B", "#00BCD4", "#673AB7">>

\* The palette of the revision kept in src/unnamed/part_000.
routeColorsPart000 ==
    <<"#FF6384", "#36A2EB", "#FFCE56", "#4BC0C0", "#9966FF", "#FF9F40",
      "#F44336", "#2196F3", "#FFEB3B", "#00BCD4", "#673AB7", "#8BC34A",
      "#E91E63", "#03A9F4", "#CDDC39", "#009688", "#9C27B0", "#FF9800">>

\* A DriverRoute without the routePoints property.
DriverRouteNoPoints(driverId) == [driverId |-> driverId]

\* String(n) of a whole number n >= 0, one token per decimal digit.
DigitChars == <<"0", "1", "2", "3", "4", "5", "6", "7", "8", "9">>

RECURSIVE Digits(_)
Digits(n) ==
    IF n < 10 THEN <<DigitChars[n + 1]>>
    ELSE Append(Digits(n \div 10), DigitChars[(n % 10) + 1])

\* `Driver ${driverId}`
DriverLabel(driverId) == <<"Driver ">> \o Digits(driverId)

\* d.id === 0, which is false of a delivery without an id.
IsDepot(d) == "id" \in DOMAIN d /\ d.id = 0

\* ({ x: d.x, y: d.y, id: d.id }), the id left out where d.id is
\* undefined.
MarkerPoint(d) ==
    IF "id" \in DOMAIN d THEN [x |-> d.x, y |-> d.y, id |-> d.id]
    ELSE [x |-> d.x, y |-> d.y]

\* A mapping that keeps the depot among the delivery markers.
DeliveryPointsDataKeepsDepot(ds) ==
    [i \in 1..Len(ds) |-> [x |-> ds[i].x, y |-> ds[i].y, id |-> ds[i].id]]

\* deliveries.filter((d) => d?.id !== 0).map((d) => ({x, y, id}))
DeliveryPointsData(ds) ==
    LET kept == SelectSeq(ds, LAMBDA d : ~IsDepot(d))
    IN  [i \in 1..Len(kept) |-> MarkerPoint(kept[i])]

\* deliveries.find((d) => d?.id === 0), as a list of at most one delivery.
DepotPoint(ds) ==
    LET hits == {i \in 1..Len(ds) : IsDepot(ds[i])}
    IN  IF hits = {} THEN << >>
        ELSE <<ds[CHOOSE i \in hits : \A j \in hits : i <= j]>>

\* The "Delivery Locations" dataset.
DeliveryLayer(ds) ==
    [type |-> "scatter", label |-> <<"Delivery Locations">>,
     data |-> DeliveryPointsData(ds),
     borderColor |-> "rgba(75, 192, 192, 1)", order |-> 2]

\* The "Depot (ID: 0)" dataset.
DepotLayer(depotPoint) ==
    [type |-> "scatter", label |-> <<"Depot (ID: 0)">>,
     data |-> <<[x |-> depotPoint.x, y |-> depotPoint.y, id |-> 0]>>,
     borderColor |-> "rgba(255, 99, 132, 1)", order |-> 3]

\* A condition that drops the routes of one point too.
HasLineNeedsTwoPoints(route) ==
    "routePoints" \in DOMAIN route /\ Len(route.routePoints) > 1

\* route?.routePoints && route.routePoints.length > 0
HasLine(route) ==
    "routePoints" \in DOMAIN route /\ Len(route.routePoints) > 0

\* A colour chosen by the driver's identifier.
BorderColorByDriverId(palette, route, index) ==
    palette[(route.driverId % Len(palette)) + 1]

\* routeColors[index % routeColors.length], index counted from 0.
BorderColor(palette, route, index) ==
    palette[(index % Len(palette)) + 1]

\* The dataset pushed for one route.
LineLayer(palette, route, index) ==
    [type |-> "line", label |-> DriverLabel(route.driverId),
     data |-> [i \in 1..Len(route.routePoints) |->
                  [x |-> route.routePoints[i].x,
                   y |-> route.routePoints[i].y]],
     borderColor |-> BorderColor(palette, route, index), order |-> 1]

\* driverRoutes.forEach((route, index) => {...}), from index on.
RECURSIVE ForEachRoute(_, _, _, _)
ForEachRoute(palette, routes, index, datasets) ==
    IF index >= Len(routes) THEN datasets
    ELSE LET route == routes[index + 1]
         IN  ForEachRoute(palette, routes, index + 1,
                          IF HasLine(route)
                          THEN Append(datasets,
                                      LineLayer(palette, route, index))
                          ELSE datasets)

\* What the component returns: the placeholder, or the chart with its
\* datasets.
RouteChartWith(palette, ds, routes) ==
    IF Len(ds) = 0 THEN [kind |-> "placeholder", datasets |-> << >>]
    ELSE LET depotPoint == DepotPoint(ds)
             markers == <<DeliveryLayer(ds)>> \o
                        (IF depotPoint # << >>
                         THEN <<DepotLayer(depotPoint[1])>> ELSE << >>)
         IN  [kind |-> "chart",
              datasets |-> ForEachRoute(palette, routes, 0, markers)]

RouteChart(ds, routes) == RouteChartWith(routeColors, ds, routes)

\* The same component in src/unnamed/part_000.
RouteChartPart000(ds, routes) ==
    RouteChartWith(routeColorsPart000, ds, routes)

\* The props the chart is checked on.
DeliverySet == {Delivery(0, 0, 0), Delivery(1, 1, 1), Delivery(2, 2, 2)}

RouteSet == {DriverRoute(2, <<Delivery(1, 1, 1), Delivery(2, 2, 2),
                              Delivery(0, 0, 0)>>),
             DriverRoute(1, << >>),
             DriverRouteNoPoints(3)}

\* The sequences over S of length n, and of length at most n.
RECURSIVE SeqsOfLen(_, _)
SeqsOfLen(S, n) ==
    IF n = 0 THEN {<< >>}
    ELSE {Append(q, e) : q \in SeqsOfLen(S, n - 1), e \in S}

SeqsUpTo(S, n) == UNION {SeqsOfLen(S, k) : k \in 0..n}

\* n routes of driver 9, each of one point.
Filler(n) == [i \in 1..n |-> DriverRoute(9, <<Delivery(1, 1, 1)>>)]

InitChart ==
    /\ InitPage
    /\ signalrUrl = TRUE
    /\ apiUrl = TRUE
    /\ deliveries \in SeqsUpTo(DeliverySet, MaxDeliveries)
    /\ driverRoutes \in {Filler(n) \o tail :
                            n \in 0..MaxPad,
                            tail \in SeqsUpTo(RouteSet, MaxRoutes)}
    /\ chart = NotRendered
    /\ InitView

\* The page renders <RouteChart deliveries=... driverRoutes=... />.
RenderRouteChart ==
    /\ chart' = RouteChart(deliveries, driverRoutes)
    /\ UNCHANGED <<formVars, hubVars, envVars, lifeVars, isLoading, error,
                   results, logMessages, mounted, requests, submits, ev,
                   prevLogs, plain, received, issued, viewVars,
                   deliveries, driverRoutes>>

-----------------------------------------------------------------------------
(* Properties of the log *)

\* The log entry is the notification, as received.
Incoming(entry, update) ==
    /\ entry.message = update.message
    /\ entry.style = update.style
    /\ entry.clearPreviousProgress = update.clearPreviousProgress

\* Position k holds the most recent progress-styled entry of logs.
LastProgressAt(logs, k) ==
    /\ k \in 1..Len(logs)
    /\ logs[k].style = "progress"
    /\ \A j \in (k + 1)..Len(logs) : logs[j].style # "progress"

HasProgress(logs) == \E k \in 1..Len(logs) : logs[k].style = "progress"

\* after is before with position k replaced by the notification.
ReplacedAt(before, after, k, update) ==
    /\ Len(after) = Len(before)
    /\ Incoming(after[k], update)
    /\ \A i \in 1..Len(before) : i # k => after[i] = before[i]

\* after is before with the notification added at the end.
AppendedTo(before, after, update) ==
    /\ Len(after) = Len(before) + 1
    /\ \A i \in 1..Len(before) : after[i] = before[i]
    /\ Incoming(after[Len(after)], update)

Received == ev.kind = "ReceiveMessage"

\* C1: a flagged progress notification that finds a progress-styled entry
\* at position k, with none after it, leaves the log's length unchanged,
\* puts the notification at position k and leaves every other position as
\* it was.  Both revisions of the handler are held to it.
C1_ReplaceInPlace ==
    (Received /\ ev.update.clearPreviousProgress
        /\ ev.update.style = "progress")
    => \A k \in 1..Len(prevLogs) :
          LastProgressAt(prevLogs, k)
          => /\ ReplacedAt(prevLogs, logMessages, k, ev.update)
             /\ ReplacedAt(prevLogs,
                           ReceiveMessageFindIndex(prevLogs, ev.update),
                           k, ev.update)

\* A replacement in the middle of the log: entries before and after it.
C1_Witness ==
    /\ Received /\ ev.update.clearPreviousProgress
    /\ ev.update.style = "progress"
    /\ Len(prevLogs) = 3
    /\ LastProgressAt(prevLogs, 2)
    /\ logMessages[2] # prevLogs[2]
    /\ Len(logMessages) = 3

\* C2: from an empty log, a sequence of notifications none of which is a
\* flagged progress notification leaves a log as long as the sequence,
\* holding the notifications in arrival order.
C2_PureAppend ==
    plain.ok
    => /\ Len(logMessages) = Len(plain.seq)
       /\ \A i \in 1..Len(plain.seq) : Incoming(logMessages[i], plain.seq[i])

\* Three arrivals, with unflagged progress lines and a flagged other style.
C2_Witness ==
    /\ plain.ok
    /\ Len(plain.seq) = 3
    /\ plain.seq[1].style = "progress"
    /\ plain.seq[2].style = "progress"
    /\ plain.seq[3].clearPreviousProgress
    /\ Len(logMessages) = 3

\* C3: a flagged progress notification that finds no progress-styled entry
\* is appended: the log grows by one and the earlier entries are unchanged.
C3_FallBackToAppend ==
    (Received /\ ev.update.clearPreviousProgress
        /\ ev.update.style = "progress" /\ ~HasProgress(prevLogs))
    => AppendedTo(prevLogs, logMessages, ev.update)

C3_Witness ==
    /\ Received /\ ev.update.clearPreviousProgress
    /\ ev.update.style = "progress"
    /\ Len(prevLogs) = 2 /\ ~HasProgress(prevLogs)
    /\ Len(logMessages) = 3
    /\ logMessages[3].style = "progress"

\* C4: a notification that is not both flagged and progress-styled is
\* appended at the end, also when the log holds a progress-styled entry.
C4_ReplaceOnlyFlaggedProgress ==
    (Received /\ ~(ev.update.clearPreviousProgress
                   /\ ev.update.style = "progress"))
    => /\ AppendedTo(prevLogs, logMessages, ev.update)
       /\ AppendedTo(prevLogs, ReceiveMessageFindIndex(prevLogs, ev.update),
                     ev.update)

\* A flagged notification of another style, appended after a progress line.
C4_Witness ==
    /\ Received /\ ev.update.clearPreviousProgress
    /\ ev.update.style # "progress"
    /\ HasProgress(prevLogs)
    /\ Len(logMessages) = Len(prevLogs) + 1
    /\ logMessages[Len(logMessages)].style = ev.update.style

\* C5: a step other than a submission removes no log entry: the length
\* stays or grows by one, and an entry changes only when it is the most
\* recent progress-styled entry, replaced in place.
C5_NoEntryRemoved ==
    (ev.kind # "handleSubmit")
    => /\ Len(logMessages) \in {Len(prevLogs), Len(prevLogs) + 1}
       /\ \A i \in 1..Len(prevLogs) :
             logMessages[i] # prevLogs[i]
             => /\ LastProgressAt(prevLogs, i)
                /\ Len(logMessages) = Len(prevLogs)
                /\ Received

\* A replacement while a request is in flight, with two progress lines in
\* the log.
C5_Witness ==
    /\ Received /\ isLoading /\ requests # {}
    /\ Len(prevLogs) = 3
    /\ prevLogs[1].style = "progress"
    /\ prevLogs[2].style = "progress"
    /\ logMessages[2] # prevLogs[2]

-----------------------------------------------------------------------------
(* Properties of handleSubmit *)

Submitted == ev.kind = "handleSubmit"

\* The submission that ran last issued its network request.
IssuedBySubmit == \E r \in requests : r.id = submits /\ r.pc = "fetch"

\* C6: every request issued carries positive counts and a minimum below
\* the maximum; a submission with a count <= 0 or minimum >= maximum sets
\* an error and issues no request.
C6_ValidatedBeforeSending ==
    /\ \A r \in requests :
          /\ r.body.numberOfDeliveries > 0
          /\ r.body.numberOfDrivers > 0
          /\ r.body.minCoordinate < r.body.maxCoordinate
    /\ (Submitted /\ (numDeliveries <= 0 \/ numDrivers <= 0
                      \/ minCoord >= maxCoord))
       => (error # Null /\ ~IssuedBySubmit /\ ~isLoading)

\* A submission with minimum = maximum, rejected although the API URL is
\* configured.
C6_Witness ==
    /\ Submitted /\ apiUrl
    /\ numDeliveries > 0 /\ numDrivers > 0
    /\ minCoord = maxCoord
    /\ error = ErrCoords
    /\ requests = {}

\* C7: at most one request is in flight, and isLoading is true whenever
\* one is.
C7_SingleRequestInFlight ==
    /\ Cardinality(requests) <= 1
    /\ requests # {} => isLoading

\* The second submission of a page load, in flight.
C7_Witness ==
    /\ submits = 2
    /\ Cardinality(requests) = 1
    /\ isLoading

\* The request that just settled failed: fetch rejected, the body could
\* not be parsed, the status was not a success, or the body lacks the
\* expected structure.
RequestFailed ==
    \/ ev.kind = "fetchRejected"
    \/ ev.kind = "jsonRejected"
    \/ /\ ev.kind = "jsonResolved"
       /\ (~ev.ok \/ ev.data.isNull \/ ev.data.bestMethod = Null)

\* The log is prevLogs with one entry of the style added at the end.
EntryAppended(style) ==
    /\ Len(logMessages) = Len(prevLogs) + 1
    /\ \A i \in 1..Len(prevLogs) : logMessages[i] = prevLogs[i]
    /\ logMessages[Len(logMessages)].style = style

\* C8, as handleSubmit of src/src/app/page.tsx has it: a failed request
\* leaves a non-null error, no result, and one "error-large" entry more at
\* the end of the log.
C8_PageAppendsErrorLarge ==
    RequestFailed
    => /\ error # Null
       /\ results = Null
       /\ EntryAppended("error-large")

\* C8: the same, for both places of the code the claim is about: the
\* entry the catch block of src/unnamed/part_002 (line 195) appends is
\* held to the style "error-large" too.
C8_ErrorLargeAppended ==
    RequestFailed
    => /\ error # Null
       /\ results = Null
       /\ EntryAppended("error-large")
       /\ ev.kind = "fetchRejected"
          => /\ CatchErrorPart002(ev.errMessage) # Null
             /\ CatchEntryPart002(ev.errMessage).style = "error-large"

\* handleSubmit has just finished: it returned early, or its finally block
\* ran.
SubmitFinished ==
    /\ ~isLoading
    /\ ev.kind \in {"handleSubmit", "fetchRejected", "jsonRejected",
                    "jsonResolved"}

\* C9: when handleSubmit has finished, a result is stored or an error is
\* shown.
C9_ResultOrError ==
    SubmitFinished => (results # Null \/ error # Null)

\* A success status with the body null: no result, and an error.
C9_Witness ==
    /\ SubmitFinished
    /\ ev.kind = "jsonResolved" /\ ev.ok /\ ev.data.isNull
    /\ results = Null
    /\ error # Null

\* C10: a submission that passes validation with the API URL configured
\* issues its request, whatever the state of the push channel.
C10_ChannelNeverBlocks ==
    (Submitted /\ numDeliveries > 0 /\ numDrivers > 0
        /\ minCoord < maxCoord /\ apiUrl)
    => (IssuedBySubmit /\ isLoading)

\* A request issued after the hub failed to start.
C10_Witness ==
    /\ Submitted /\ IssuedBySubmit
    /\ hubConnection # "null"
    /\ hubState = "Disconnected"
    /\ connectionStatus = "Connection Failed"

\* A request issued with no hub at all.
C10_WitnessNoHub ==
    /\ Submitted /\ IssuedBySubmit
    /\ hubConnection = "null"

\* C11: right after the synchronous part of handleSubmit the log holds
\* nothing of what it held before: it is empty when the push channel is
\* connected, and holds the one not-connected warning otherwise.
C11_LogClearedAtSubmit ==
    Submitted
    => IF hubConnection # "null" /\ hubState = "Connected"
       THEN logMessages = << >>
       ELSE /\ Len(logMessages) = 1
            /\ logMessages[1].style = "warning"
            /\ StartsWith(logMessages[1].message,
                          "SignalR not connected (State:")

\* A submission over a connected channel that found two entries in the log.
C11_Witness ==
    /\ Submitted
    /\ hubState = "Connected"
    /\ Len(prevLogs) >= 2
    /\ logMessages = << >>

\* A submission without a channel that found a warning and an error in the
\* log.
C11_WitnessNotConnected ==
    /\ Submitted
    /\ hubConnection = "null"
    /\ Len(prevLogs) = 2
    /\ Len(logMessages) = 1

-----------------------------------------------------------------------------
(* Properties of the result *)

\* C12, but for the order of the routes: no result while loading, and a
\* stored result is the object returned for the request submitted last.
C12_ResultOfLatestRequest ==
    /\ isLoading => results = Null
    /\ results # Null
       => /\ received.id = submits
          /\ results[1].bestMethod = received.data.bestMethod
          /\ results[1].errorMessage = received.data.errorMessage
          /\ Len(results[1].driverRoutes) = Len(received.data.driverRoutes)

\* C12: results is null while isLoading is true, and a non-null results is
\* exactly the payload returned for the request submitted last.
C12_SingleResult ==
    /\ isLoading => results = Null
    /\ results # Null
       => /\ received.id = submits
          /\ results = <<received.data>>

\* C13: the driverRoutes of the stored result is the sequence received
\* from the service, in the same order.
C13_PayloadNeverModified ==
    results # Null
    => results[1].driverRoutes = received.data.driverRoutes

\* C14: once the page has unmounted with a connection created at mount,
\* stop has been invoked on that connection.
C14_StoppedOnUnmount ==
    (unmounted /\ hubConnection = "connection") => hubStopped

\* The error shown is the one the mount effect set for the missing URL.
ConfigErrorShown == ~signalrUrl /\ error = ErrSignalRUrlMissing

\* C15: once the mount effect has set the error for the missing SignalR
\* URL, no step clears or replaces it.
C15_ConfigErrorPersists == [][ConfigErrorShown => ConfigErrorShown']_vars

\* t occurs in s as a run of consecutive tokens.
IsInfix(t, s) ==
    \E i \in 1..(Len(s) - Len(t) + 1) : SubSeq(s, i, i + Len(t) - 1) = t

\* C16: a success response whose well-formed body carries an errorMessage
\* sets the error text from that message and stores no result.
C16_ErrorFieldIsAnError ==
    (/\ ev.kind = "jsonResolved" /\ ev.ok
     /\ ~ev.data.isNull /\ ev.data.bestMethod # Null
     /\ ev.data.errorMessage # Null)
    => /\ results = Null
       /\ error # Null
       /\ IsInfix(ev.data.errorMessage, error)

\* The text the claim expects for a response that is not a success.
ServerMessage(data) ==
    IF data.errorMessage # Null THEN data.errorMessage
    ELSE IF data.title # Null THEN data.title
    ELSE <<"Server Error", "(status):", "statusText">>

\* C17: after a response that is not a success, the error text is the
\* body's errorMessage, otherwise its title, otherwise the generic
\* "Server Error (<status>): <statusText>".
C17_ServerMessageVerbatim ==
    (ev.kind = "jsonResolved" /\ ~ev.ok) => error = ServerMessage(ev.data)

\* C17, for the bodies that carry neither field: the generic message is
\* shown as it is.
C17_GenericMessageVerbatim ==
    (/\ ev.kind = "jsonResolved" /\ ~ev.ok
     /\ ev.data.errorMessage = Null /\ ev.data.title = Null)
    => error = <<"Server Error", "(status):", "statusText">>

-----------------------------------------------------------------------------
(* Properties of the chart *)

\* RouteChart has built its datasets from a non-empty delivery list.
ChartBuilt == chart.kind = "chart"

\* The positions of the deliveries that are not the depot, and the place
\* of position i among them.
NonDepot == {i \in 1..Len(deliveries) : deliveries[i].id # 0}
RankAmong(S, i) == Cardinality({j \in S : j <= i})

\* The line datasets of a chart, in the order they were pushed.
LinesOf(datasets) == SelectSeq(datasets, LAMBDA l : l.type = "line")

\* The positions of the routes that have at least one point.
WithPoints ==
    {i \in 1..Len(driverRoutes) :
        /\ "routePoints" \in DOMAIN driverRoutes[i]
        /\ Len(driverRoutes[i].routePoints) >= 1}

\* C18: for a non-empty delivery list there is one delivery-marker layer,
\* holding the deliveries with an identifier other than 0, in input order
\* and each with its identifier, and there is one depot layer of one point
\* exactly when some delivery has identifier 0.
C18_MarkersAndDepot ==
    /\ (chart.kind # "none" /\ Len(deliveries) > 0) => ChartBuilt
    /\ ChartBuilt
       => LET ds == chart.datasets
              markers == {k \in 1..Len(ds) :
                             ds[k].label = <<"Delivery Locations">>}
              depots == {k \in 1..Len(ds) :
                            ds[k].label = <<"Depot (ID: 0)">>}
          IN  /\ Cardinality(markers) = 1
              /\ \A k \in markers :
                    /\ Len(ds[k].data) = Cardinality(NonDepot)
                    /\ \A i \in NonDepot :
                          LET pt == ds[k].data[RankAmong(NonDepot, i)]
                          IN  /\ pt.id = deliveries[i].id
                              /\ pt.x = deliveries[i].x
                              /\ pt.y = deliveries[i].y
                    /\ \A j \in 1..Len(ds[k].data) : ds[k].data[j].id # 0
              /\ Cardinality(depots) =
                    (IF \E i \in 1..Len(deliveries) : deliveries[i].id = 0
                     THEN 1 ELSE 0)
              /\ \A k \in depots : Len(ds[k].data) = 1

\* The delivery set {0, 1, 2} charted without routes: a depot layer of one
\* point and a delivery-marker layer of two.
C18_Witness ==
    /\ ChartBuilt
    /\ deliveries = <<Delivery(0, 0, 0), Delivery(1, 1, 1),
                      Delivery(2, 2, 2)>>
    /\ driverRoutes = << >>
    /\ Len(chart.datasets) = 2
    /\ Len(chart.datasets[1].data) = 2
    /\ Len(chart.datasets[2].data) = 1

\* C19: the chart has one line layer per route with at least one point,
\* in input order, whose vertices are the coordinates of the route's
\* points in the route's order; the other routes have none.
C19_OneLinePerNonEmptyRoute ==
    ChartBuilt
    => LET lines == LinesOf(chart.datasets)
       IN  /\ Len(lines) = Cardinality(WithPoints)
           /\ \A i \in WithPoints :
                 LET line == lines[RankAmong(WithPoints, i)]
                     pts == driverRoutes[i].routePoints
                 IN  /\ line.label
                           = <<"Driver ">> \o Digits(driverRoutes[i].driverId)
                     /\ Len(line.data) = Len(pts)
                     /\ \A j \in 1..Len(pts) :
                           /\ line.data[j].x = pts[j].x
                           /\ line.data[j].y = pts[j].y

\* A route of one point, then one of three, then one of none: two line
\* layers, of one vertex and of three.
C19_Witness ==
    /\ ChartBuilt
    /\ driverRoutes = <<DriverRoute(9, <<Delivery(1, 1, 1)>>),
                        DriverRoute(2, <<Delivery(1, 1, 1), Delivery(2, 2, 2),
                                         Delivery(0, 0, 0)>>),
                        DriverRoute(1, << >>)>>
    /\ LET lines == LinesOf(chart.datasets)
       IN  /\ Len(lines) = 2
           /\ Len(lines[1].data) = 1
           /\ Len(lines[2].data) = 3

\* A route without the routePoints property between two routes of one
\* point.
C19_WitnessNoPoints ==
    /\ ChartBuilt
    /\ Len(driverRoutes) = 3
    /\ driverRoutes[2] = DriverRouteNoPoints(3)
    /\ Len(LinesOf(chart.datasets)) = 2

\* The line layers of a chart take their colours from the palette by the
\* position of their route in driverRoutes, counted from 0.
ColouredByPosition(datasets, palette) ==
    LET lines == LinesOf(datasets)
    IN  \A i \in WithPoints :
           lines[RankAmong(WithPoints, i)].borderColor
              = palette[((i - 1) % Len(palette)) + 1]

\* C20: the line layer of the route at position i has the colour
\* palette[i mod palette length], whatever its driverId and however many
\* routes before it were left out; this for both revisions of the
\* component, each with its palette.
C20_ColourByPosition ==
    ChartBuilt
    => /\ ColouredByPosition(chart.datasets, routeColors)
       /\ ColouredByPosition(
              RouteChartPart000(deliveries, driverRoutes).datasets,
              routeColorsPart000)

\* Seventeen routes, the 16th left out for having no points: the 17th is
\* drawn in the palette's second colour, the first in its first.
C20_Witness ==
    /\ ChartBuilt
    /\ Len(driverRoutes) = 17
    /\ driverRoutes[16] = DriverRoute(1, << >>)
    /\ driverRoutes[17].driverId = 2
    /\ LET lines == LinesOf(chart.datasets)
       IN  /\ Len(lines) = 16
           /\ lines[1].borderColor = routeColors[1]
           /\ lines[16].borderColor = routeColors[2]

-----------------------------------------------------------------------------
(* Tooltip titles, driver cards and the total-distance stat *)

\* Distances are whole numbers of tenths of a metre (1234 is 123.4 m).
\* d.toFixed(1), one token per character.
toFixed1(d) == Digits(d \div 10) \o <<".">> \o Digits(d % 10)

\* A DriverRoute with its distance and its deliveryIds.
DriverRouteOf(driverId, routePoints, deliveryIds, distance) ==
    [driverId |-> driverId, routePoints |-> routePoints,
     deliveryIds |-> deliveryIds, distance |-> distance]

\* A DriverRoute whose payload carries no distance.
DriverRouteNoDistance(driverId, routePoints, deliveryIds) ==
    [driverId |-> driverId, routePoints |-> routePoints,
     deliveryIds |-> deliveryIds]

\* A DriverRoute whose payload carries no deliveryIds.
DriverRouteNoIds(driverId, routePoints, distance) ==
    [driverId |-> driverId, routePoints |-> routePoints,
     distance |-> distance]

\* A delivery whose payload carries no id.
DeliveryNoId(x, y) == [x |-> x, y |-> y]

\* What a callback gives back: the string it returned, or the TypeError
\* it threw.
Returned(text) == [threw |-> FALSE, text |-> text]
Threw == [threw |-> TRUE, text |-> << >>]

\* driverRoutes.find((dr) => dataset.label?.includes(`Driver ${dr.driverId}`)),
\* as a list of at most one route.
FindByLabel(routes, label) ==
    LET hits == {i \in 1..Len(routes) :
                    IsInfix(DriverLabel(routes[i].driverId), label)}
    IN  IF hits = {} THEN << >>
        ELSE <<routes[CHOOSE i \in hits : \A j \in hits : i <= j]>>

\* `Point #${pointData.id}`
PointTitle(pointData) ==
    <<"Point #">> \o (IF "id" \in DOMAIN pointData THEN Digits(pointData.id)
                      ELSE <<"undefined">>)

\* `Driver ${driverRoute.driverId} (Dist: ${driverRoute.distance.toFixed(1)} m)`
LineTitle(driverRoute) ==
    IF "distance" \in DOMAIN driverRoute
    THEN Returned(DriverLabel(driverRoute.driverId) \o <<" (Dist: ">>
                  \o toFixed1(driverRoute.distance) \o <<" m)">>)
    ELSE Threw

\* tooltip.callbacks.title of src/src/components/RouteChart.tsx for the
\* item at dataIndex of the dataset at datasetIndex, both counted from 0.
TooltipTitle(datasets, routes, datasetIndex, dataIndex) ==
    LET dataset == datasets[datasetIndex + 1]
        pointData == dataset.data[dataIndex + 1]
        driverRoute == FindByLabel(routes, dataset.label)
    IN  IF dataset.type = "scatter"
        THEN Returned(IF IsDepot(pointData) THEN <<"Depot">>
                      ELSE PointTitle(pointData))
        ELSE IF dataset.type = "line" /\ driverRoute # << >>
        THEN LineTitle(driverRoute[1])
        ELSE Returned(dataset.label)

\* tooltip.callbacks.title of src/unnamed/part_000.
TooltipTitlePart000(datasets, datasetIndex, dataIndex) ==
    LET dataset == datasets[datasetIndex + 1]
        point == dataset.data[dataIndex + 1]
    IN  IF dataset.type = "scatter" /\ "id" \in DOMAIN point
        THEN Returned(IF point.id = 0 THEN <<"Depot">>
                      ELSE <<"Point ID: ">> \o Digits(point.id))
        ELSE Returned(<<"Location">>)

\* values.join(" -> ") of a list of whole numbers, one token per
\* character; the token "->" is the arrow character U+2192.
RECURSIVE Join(_)
Join(values) ==
    IF values = << >> THEN << >>
    ELSE IF Len(values) = 1 THEN Digits(values[1])
    ELSE Digits(values[1]) \o <<" ", "->", " ">> \o Join(Tail(values))

\* The "Route Sequence" line of DriverRouteCard:
\* 0 ->{" "}{route.deliveryIds?.join(" -> ") ?? "N/A"} -> 0
RouteSequence(route) ==
    <<"0", " ", "->">> \o <<" ">>
    \o (IF "deliveryIds" \in DOMAIN route THEN Join(route.deliveryIds)
        ELSE <<"N", "/", "A">>)
    \o <<" ", "->", " ", "0">>

\* What DriverRouteCard renders for one route.
DriverRouteCard(route) ==
    [driver |-> Digits(route.driverId),
     distance |-> toFixed1(IF "distance" \in DOMAIN route
                           THEN route.distance ELSE 0),
     sequence |-> RouteSequence(route)]

\* The driver cards of the results section: the routes sorted by driverId,
\* one card each.
DriverCards(res) ==
    LET routes == SortByDriverId(res[1].driverRoutes)
    IN  [i \in 1..Len(routes) |-> DriverRouteCard(routes[i])]

\* undefined, where a number was looked for.
Undefined == [tag |-> "undefined", value |-> 0]

\* res.<field> of a result, undefined when the payload has no such field.
Distance(r, field) ==
    IF field \in DOMAIN r THEN Num(r[field]) ELSE Undefined

\* a ?? b
Coalesce(a, b) == IF a = Undefined THEN b ELSE a

\* getTotalDistance of src/src/app/page.tsx, lines 1083-1091.
getTotalDistance(res) ==
    IF res = Null THEN NaN
    ELSE LET r == res[1]
         IN  IF Includes(r.bestMethod, "NN")
             THEN Distance(r, "optimizedDistanceNN")
             ELSE IF Includes(r.bestMethod, "CWS")
             THEN Distance(r, "optimizedDistanceCWS")
             ELSE Coalesce(Distance(r, "optimizedDistanceCWS"),
                           Coalesce(Distance(r, "optimizedDistanceNN"), NaN))

\* The distance the stat of the earlier revision is rendered from
\* (page.tsx, lines 543-555).
TotalDistanceEarlier(res) ==
    LET r == res[1]
    IN  IF Includes(r.bestMethod, "NN")
        THEN Distance(r, "optimizedDistanceNN")
        ELSE Distance(r, "optimizedDistanceGI")

\* `${d.toFixed(1)} m`, the head of the stat's value.
StatValue(d) ==
    IF d.tag = "num" THEN Returned(toFixed1(d.value) \o <<" m">>)
    ELSE IF d.tag = "NaN" THEN Returned(<<"NaN", " m">>)
    ELSE Threw

\* The deliveries and the routes of the charts that are hovered.
HoverDeliverySet == {Delivery(0, 0, 0), Delivery(1, 1, 1), DeliveryNoId(2, 2)}

HoverRouteSet ==
    {DriverRouteOf(1, <<Delivery(1, 1, 1)>>, <<1>>, 150),
     DriverRouteOf(10, <<Delivery(1, 1, 1), Delivery(0, 0, 0)>>, <<1>>, 275),
     DriverRouteNoDistance(2, <<Delivery(1, 1, 1)>>, <<1>>),
     DriverRouteOf(3, << >>, << >>, 0)}

InitTooltip ==
    /\ InitPage
    /\ InitView
    /\ signalrUrl = TRUE
    /\ apiUrl = TRUE
    /\ deliveries \in SeqsUpTo(HoverDeliverySet, MaxHoverDeliveries)
    /\ driverRoutes \in SeqsUpTo(HoverRouteSet, MaxHoverRoutes)
    /\ chart = NotRendered

\* The pointer comes nearest to one item of the chart, and the tooltip
\* asks for its title.
HoverItem ==
    /\ chart.kind = "chart"
    /\ \E datasetIndex \in 0..(Len(chart.datasets) - 1) :
          \E dataIndex \in 0..(Len(chart.datasets[datasetIndex + 1].data) - 1) :
             tooltip' = [kind |-> "title",
                         datasetIndex |-> datasetIndex,
                         dataIndex |-> dataIndex,
                         title |-> TooltipTitle(chart.datasets, driverRoutes,
                                                datasetIndex, dataIndex)]
    /\ UNCHANGED <<formVars, hubVars, envVars, lifeVars, chartVars,
                   isLoading, error, results, logMessages, mounted,
                   requests, submits, ev, prevLogs, plain, received, issued,
                   cards, shown, totalDistance>>

\* The results the results section is rendered from.
BestMethods == {<<"NN">>, <<"GI">>, <<"CWS">>, Null}

CardRouteSet ==
    {DriverRouteOf(2, <<Delivery(2, 2, 2), Delivery(3, 3, 3)>>, <<2, 3>>,
                   1234),
     DriverRouteOf(1, << >>, << >>, 0),
     DriverRouteNoIds(3, <<Delivery(1, 1, 1)>>, 150)}

OptimizationResult(bestMethod, routes) ==
    [bestMethod |-> bestMethod, driverRoutes |-> routes,
     optimizedDistanceNN |-> 1234, optimizedDistanceGI |-> 1100]

OptimizationResultCWS(bestMethod, routes) ==
    [bestMethod |-> bestMethod, driverRoutes |-> routes,
     optimizedDistanceNN |-> 1234, optimizedDistanceGI |-> 1100,
     optimizedDistanceCWS |-> 1050]

ResultSet ==
    {OptimizationResult(m, routes) :
        m \in BestMethods, routes \in SeqsUpTo(CardRouteSet, MaxCardRoutes)}
    \cup
    {OptimizationResultCWS(m, routes) :
        m \in BestMethods, routes \in SeqsUpTo(CardRouteSet, MaxCardRoutes)}

InitCards ==
    /\ InitPage
    /\ signalrUrl = TRUE
    /\ apiUrl = TRUE
    /\ deliveries = << >>
    /\ driverRoutes = << >>
    /\ chart = NotRendered
    /\ tooltip = NoTooltip
    /\ cards = << >>
    /\ totalDistance = NotComputed
    /\ shown \in {<<r>> : r \in ResultSet}

\* The "Total Distance Covered" StatCard of the results section.
RenderTotalDistance ==
    /\ shown # Null
    /\ totalDistance' = [kind |-> "stat",
                         distance |-> getTotalDistance(shown),
                         value |-> StatValue(getTotalDistance(shown))]
    /\ UNCHANGED <<formVars, hubVars, envVars, lifeVars, chartVars,
                   isLoading, error, results, logMessages, mounted,
                   requests, submits, ev, prevLogs, plain, received, issued,
                   tooltip, cards, shown>>

\* The "Driver Route Details" grid of the results section, which sorts
\* results.driverRoutes in place.
RenderDriverCards ==
    /\ shown # Null
    /\ Len(shown[1].driverRoutes) > 0
    /\ cards' = DriverCards(shown)
    /\ shown' = <<[shown[1] EXCEPT !.driverRoutes = SortByDriverId(@)]>>
    /\ UNCHANGED <<formVars, hubVars, envVars, lifeVars, chartVars,
                   isLoading, error, results, logMessages, mounted,
                   requests, submits, ev, prevLogs, plain, received, issued,
                   tooltip, totalDistance>>

-----------------------------------------------------------------------------
(* Properties of the tooltips, the driver cards and the stat *)

\* A title has been asked for, and the dataset of the hovered item.
Hovered == tooltip.kind = "title"
HoveredDataset == chart.datasets[tooltip.datasetIndex + 1]

\* The position in driverRoutes of the route the hovered line layer was
\* built from.
HoveredRoute ==
    LET upTo == SubSeq(chart.datasets, 1, tooltip.datasetIndex + 1)
        k == Len(LinesOf(upTo))
    IN  CHOOSE i \in WithPoints : RankAmong(WithPoints, i) = k

DistinctDriverIds ==
    \A i, j \in 1..Len(driverRoutes) :
       i # j => driverRoutes[i].driverId # driverRoutes[j].driverId

\* C21: where the driver routes have pairwise distinct identifiers, the
\* title of a line layer's tooltip gives the identifier and the distance
\* of the route the layer was built from.
C21_TitleOfOwnRoute ==
    (/\ Hovered /\ HoveredDataset.type = "line"
     /\ DistinctDriverIds
     /\ "distance" \in DOMAIN driverRoutes[HoveredRoute])
    => LET route == driverRoutes[HoveredRoute]
       IN  tooltip.title
              = Returned(<<"Driver ">> \o Digits(route.driverId)
                         \o <<" (Dist: ">> \o toFixed1(route.distance)
                         \o <<" m)">>)

\* The hovered item is a marker without an identifier.
HoveredMarkerWithoutId ==
    /\ Hovered /\ HoveredDataset.type = "scatter"
    /\ "id" \notin DOMAIN HoveredDataset.data[tooltip.dataIndex + 1]

\* C22: asking for a tooltip title never throws, and the title of a marker
\* without an identifier is not built from the missing identifier.
C22_TitleNeverThrows ==
    Hovered
    => /\ ~tooltip.title.threw
       /\ HoveredMarkerWithoutId
          => ~Includes(tooltip.title.text, "undefined")

\* The title callback of src/unnamed/part_000 never throws, and gives
\* "Location" for a marker without an identifier and for every line.
C22_Part000NeverThrows ==
    Hovered
    => LET title == TooltipTitlePart000(chart.datasets, tooltip.datasetIndex,
                                        tooltip.dataIndex)
       IN  /\ ~title.threw
           /\ (HoveredMarkerWithoutId \/ HoveredDataset.type = "line")
              => title.text = <<"Location">>

\* The driver cards have been rendered.
CardsRendered == cards # << >>

\* C23: the stop sequence of a driver card is 0, the route's deliveryIds
\* in their stored order and 0 again, joined by arrows.
C23_StopSequence ==
    CardsRendered
    => \A k \in 1..Len(cards) :
          LET route == shown[1].driverRoutes[k]
          IN  "deliveryIds" \in DOMAIN route
              => cards[k].sequence
                    = Join(<<0>> \o route.deliveryIds \o <<0>>)

\* The same for the routes with at least one delivery; the card of
\* deliveryIds [2, 3] reads 0 -> 2 -> 3 -> 0.
C23_StopSequenceOfStops ==
    CardsRendered
    => \A k \in 1..Len(cards) :
          LET route == shown[1].driverRoutes[k]
          IN  /\ ("deliveryIds" \in DOMAIN route
                  /\ route.deliveryIds # << >>)
                 => cards[k].sequence
                       = Join(<<0>> \o route.deliveryIds \o <<0>>)
              /\ ("deliveryIds" \in DOMAIN route
                  /\ route.deliveryIds = <<2, 3>>)
                 => cards[k].sequence
                       = <<"0", " ", "->", " ", "2", " ", "->", " ", "3",
                           " ", "->", " ", "0">>

\* The stat has been rendered.
StatRendered == totalDistance.kind = "stat"

\* C24: the stat shows optimizedDistanceNN when bestMethod names the
\* nearest-neighbor variant, optimizedDistanceGI when it names the
\* greedy-insertion variant and optimizedDistanceCWS when it names the
\* savings variant.
C24_StatOfBestMethod ==
    StatRendered
    => LET r == shown[1]
       IN  /\ r.bestMethod = <<"NN">>
              => totalDistance.distance = Num(r.optimizedDistanceNN)
           /\ r.bestMethod = <<"GI">>
              => totalDistance.distance = Num(r.optimizedDistanceGI)
           /\ (r.bestMethod = <<"CWS">> /\ "optimizedDistanceCWS" \in DOMAIN r)
              => totalDistance.distance = Num(r.optimizedDistanceCWS)

\* The same without the greedy-insertion variant.
C24_StatOfNNAndCWS ==
    StatRendered
    => LET r == shown[1]
       IN  /\ r.bestMethod = <<"NN">>
              => /\ totalDistance.distance = Num(r.optimizedDistanceNN)
                 /\ totalDistance.value
                       = Returned(<<"1", "2", "3", ".", "4", " m">>)
           /\ (r.bestMethod = <<"CWS">> /\ "optimizedDistanceCWS" \in DOMAIN r)
              => totalDistance.distance = Num(r.optimizedDistanceCWS)

\* The stat of the earlier revision shows optimizedDistanceGI when
\* bestMethod names the savings variant.
C24_EarlierStatOfBestMethod ==
    StatRendered
    => LET r == shown[1]
       IN  (r.bestMethod = <<"CWS">> /\ "optimizedDistanceCWS" \in DOMAIN r)
           => TotalDistanceEarlier(shown) = Num(r.optimizedDistanceCWS)

-----------------------------------------------------------------------------
(* Properties of the page under interleavings *)

\* C25: a close event that finds the status indicator at "Connection
\* Failed" leaves it there.
C25_FailedStaysFailed ==
    [][(connectionStatus = "Connection Failed" /\ ev'.kind = "close")
       => connectionStatus' = "Connection Failed"]_vars

C27_OnlyLatestRequest == Received => ev.origin = submits

\* C28: when a success response has been stored and isLoading is false,
\* error is null, so that the results section is rendered.
C28_ResultDisplayed ==
    (ev.kind = "jsonResolved" /\ results # Null /\ ~isLoading)
    => /\ error = Null
       /\ ResultsShown(results, isLoading, error)

\* C29: both counts are at least 1.
C29_CountsAtLeastOne == numDeliveries >= 1 /\ numDrivers >= 1

\* Both counts typed over, the last one with something parseInt makes NaN
\* of or with a number below 1: both stand at 1.
C29_Witness ==
    /\ ev.kind = "inputChange"
    /\ numDeliveries = 1 /\ numDrivers = 1
    /\ handleInputChange(Num(1), NaN) = 1
    /\ handleInputChange(Num(1), Num(-1)) = 1

\* C30: a submission that issues no request leaves results null, nothing
\* of the earlier log, and the four form values as they were.
C30_RejectionStillClears ==
    [][(submits' = submits + 1 /\ (submits + 1) \notin issued')
       => /\ results' = Null
          /\ Len(logMessages') <= 1
          /\ \A i \in 1..Len(logMessages') :
                logMessages'[i].style = "warning"
          /\ <<numDeliveries', numDrivers', minCoord', maxCoord'>>
                = <<numDeliveries, numDrivers, minCoord, maxCoord>>]_vars

\* A submission rejected for its coordinates, made while a result was
\* held and the log was not empty.
C30_Witness ==
    /\ Submitted /\ submits \notin issued
    /\ ev.hadResult
    /\ Len(prevLogs) >= 1
    /\ error = ErrCoords
    /\ results = Null
    /\ requests = {}

-----------------------------------------------------------------------------
(* Specifications *)

NextRequest ==
    \/ HandleSubmit
    \/ FetchRejected
    \/ FetchResolved
    \/ JsonRejected
    \/ JsonResolved
    \/ DismissError

NextHub ==
    \/ StartResolved
    \/ StartRejected
    \/ OnReconnecting
    \/ OnReconnected
    \/ OnClose
    \/ OnCloseAfterStartFailure

Next ==
    \/ MountEffect
    \/ NextHub
    \/ OnReceiveMessage
    \/ OnReceiveLateMessage
    \/ HoverItem
    \/ RenderTotalDistance
    \/ RenderDriverCards
    \/ InputChange
    \/ NextRequest
    \/ Unmount
    \/ RenderRouteChart

\* The whole page.
Spec == Init /\ [][Next]_vars

\* The page while the form is left as it is: the request lifecycle with
\* the log fed by a push channel that connects and stays connected.
NextLog == MountEffect \/ StartResolved \/ OnReceiveMessage \/ NextRequest
SpecLog == Init /\ [][NextLog]_vars

\* The page while the service pushes nothing: the request lifecycle with
\* the parameter form and the push channel's connection lifecycle.
NextPage ==
    MountEffect \/ NextHub \/ InputChange \/ NextRequest \/ Unmount
SpecPage == Init /\ [][NextPage]_vars

\* The chart component on its own, over the props it can be given.
NextChart == RenderRouteChart
SpecChart == InitChart /\ [][NextChart]_vars

\* SpecLog with the notifications that arrive late.
NextLate ==
    \/ MountEffect
    \/ StartResolved
    \/ OnReceiveMessage
    \/ OnReceiveLateMessage
    \/ NextRequest
SpecLate == Init /\ [][NextLate]_vars

\* The parameter form and the request lifecycle, with every fetch and
\* every reading of a body settling in the end.
NextSubmit == MountEffect \/ InputChange \/ NextRequest
SpecSubmitFair ==
    /\ Init /\ [][NextSubmit]_vars
    /\ WF_vars(FetchRejected \/ FetchResolved)
    /\ WF_vars(JsonRejected \/ JsonResolved)

\* A chart and the tooltips of its items.
NextTooltip == RenderRouteChart \/ HoverItem
SpecTooltip == InitTooltip /\ [][NextTooltip]_vars

\* The results section of a result that has been stored.
NextCards == RenderTotalDistance \/ RenderDriverCards
SpecCards == InitCards /\ [][NextCards]_vars

====
